---- MODULE Spec2Model ----
(***************************************************************************)
(* Model of the vorbisfile binding (src/src/lib.rs, src/src/ffi.rs):       *)
(* the read trampoline handed to libvorbisfile, the status mapper          *)
(* OVError::from_native, and the VorbisFile lifecycle new / decode /       *)
(* comment / drop.                                                         *)
(***************************************************************************)
EXTENDS Integers, Sequences, FiniteSets, TLC

VARIABLES
    rd,         \* harness of one invocation of VorbisFile::read
    vf,         \* the VorbisFile object: lifecycle state, address, fields
    nat,        \* the native library as seen through the FFI
    ret,        \* value returned by the last public operation
    hist        \* history of the run (counters and observations)

vars == <<rd, vf, nat, ret, hist>>

\* ------------------------------------------------------------ bounds
MaxSize  == 3      \* element sizes 0..MaxSize
MaxCount == 3      \* element counts 0..MaxCount
MaxData  == 6      \* bytes available in the source, 0..MaxData
MaxFrag  == 2      \* largest fragment a scripted source read returns
MaxScript == 3     \* scripted source reads before the source reads in full

Min(a, b) == IF a < b THEN a ELSE b

\* ------------------------------------------------------------ status codes
OV_FALSE      == -1
OV_HOLE       == -3
OV_EREAD      == -128
OV_EFAULT     == -129
OV_EIMPL      == -130
OV_EINVAL     == -131
OV_ENOTVORBIS == -132
OV_EBADHEADER == -133
OV_EVERSION   == -134
OV_ENOTAUDIO  == -135
OV_EBADPACKET == -136
OV_EBADLINK   == -137
OV_ENOSEEK    == -138

\* The codes ffi.rs declares.
DeclaredCodes ==
    {OV_FALSE, OV_HOLE, OV_EREAD, OV_EFAULT, OV_EIMPL, OV_EINVAL,
     OV_ENOTVORBIS, OV_EBADHEADER, OV_EVERSION, OV_ENOTAUDIO, OV_EBADPACKET,
     OV_EBADLINK, OV_ENOSEEK}

\* Negative codes ffi.rs does not declare (the c_int the library returns is
\* not confined to the declared ones).
UndeclaredCodes == {OV_FALSE - 1, OV_ENOSEEK - 1}

NativeCodes == DeclaredCodes \cup UndeclaredCodes

\* What a panic!() leaves in place of a return value.
PANIC == "PANIC"

\* The variants of enum OVError.
OVError ==
    {"EndOfStream", "StreamInterrupted", "ReadError", "InternalFault",
     "NotImplemented", "InvalidArgument", "NotVorbis", "InvalidHeader",
     "UnsupportedVersion", "CorruptLink", "NotSeekable"}

\* OVError::from_native
from_native(code) ==
    CASE code = OV_HOLE       -> "StreamInterrupted"
      [] code = OV_EREAD      -> "ReadError"
      [] code = OV_EFAULT     -> "InternalFault"
      [] code = OV_EIMPL      -> "NotImplemented"
      [] code = OV_EINVAL     -> "InvalidArgument"
      [] code = OV_ENOTVORBIS -> "NotVorbis"
      [] code = OV_EBADHEADER -> "InvalidHeader"
      [] code = OV_EVERSION   -> "UnsupportedVersion"
      [] code = OV_EBADLINK   -> "CorruptLink"
      [] code = OV_ENOSEEK    -> "NotSeekable"
      [] OTHER                -> PANIC

\* ------------------------------------------------------------ the source
\* A byte source R: Read.  data are the bytes not yet consumed; frags scripts
\* the next calls: a positive entry caps the bytes that call returns, 0 makes
\* the call report failure or zero bytes (Err(_) and Ok(0) are one match arm).
\* When the script is used up a call returns all it is asked for.
RECURSIVE Iota(_, _)
Iota(a, b) == IF a > b THEN <<>> ELSE <<a>> \o Iota(a + 1, b)

RECURSIVE SeqsUpTo(_, _)
SeqsUpTo(S, n) ==
    IF n = 0 THEN {<<>>}
    ELSE LET shorter == SeqsUpTo(S, n - 1)
         IN shorter \cup {Append(s, x) : s \in shorter, x \in S}

Sources ==
    {[data |-> Iota(1, len), frags |-> f] :
        len \in 0..MaxData, f \in SeqsUpTo(0..MaxFrag, MaxScript)}

\* (*vf).src.by_ref().take(size).read(buf): at most req bytes, in order.
\* asked tells whether the source itself was read: a Take whose limit is 0
\* returns Ok(0) without reading it.
SrcRead(src, req) ==
    LET cap == IF src.frags = <<>> THEN req ELSE Head(src.frags)
        n   == Min(Min(req, cap), Len(src.data))
        rest == IF src.frags = <<>> THEN <<>> ELSE Tail(src.frags)
    IN IF req = 0
       THEN [n |-> 0, bytes |-> <<>>, src |-> src, asked |-> FALSE]
       ELSE [n     |-> n,
             bytes |-> SubSeq(src.data, 1, n),
             src   |-> [data  |-> SubSeq(src.data, n + 1, Len(src.data)),
                        frags |-> rest],
             asked |-> TRUE]

\* ------------------------------------------------------------ read trampoline
\* Memory written through from_raw_parts_mut(bufp, size): bytes land at
\* offsets at, at+1, ... of the buffer (offset k is index k + 1).
RECURSIVE Store(_, _, _)
Store(buf, at, bytes) ==
    IF bytes = <<>> THEN buf
    ELSE Store(IF at + 1 \in DOMAIN buf THEN [buf EXCEPT ![at + 1] = Head(bytes)]
               ELSE buf,
               at + 1, Tail(bytes))

retry_size_whole(size, n) == size

\* size - n as size_t: what the retry of a partly read element asks for.
retry_size(size, n) == size - n

\* The for loop of VorbisFile::read from element i on, over the run state
\* s = [src, buf, written, calls, log]; ptr is the offset of `buffer`.  log
\* lists the reads made: where the slice started, its length, the bytes got.
RECURSIVE ReadLoop(_, _, _, _, _)
ReadLoop(s, ptr, size, nmemb, i) ==
    IF i >= nmemb THEN [s |-> s, ret |-> nmemb]
    ELSE LET bufp == ptr + i
             r    == SrcRead(s.src, size)
             s1   == [src     |-> r.src,
                      buf     |-> Store(s.buf, bufp, r.bytes),
                      written |-> s.written \cup (bufp..(bufp + r.n - 1)),
                      calls   |-> s.calls + (IF r.asked THEN 1 ELSE 0),
                      log     |-> Append(s.log, [at |-> bufp, req |-> size,
                                                 n |-> r.n])]
         IN IF r.n = size THEN ReadLoop(s1, ptr, size, nmemb, i + 1)
            ELSE IF r.n = 0 THEN [s |-> s1, ret |-> i]
            ELSE LET inner == ReadLoop(s1, bufp, retry_size(size, r.n), 1, 0)
                 IN ReadLoop(inner.s, ptr, size, nmemb, i + 1)

\* VorbisFile::read(buffer, size, nmemb, datasource)
read(s, size, nmemb) == ReadLoop(s, 0, size, nmemb, 0)

RdIdle == [phase |-> "idle"]

RdInputs ==
    {[phase |-> "call", size |-> sz, nmemb |-> cnt, src0 |-> src,
      src |-> src, buf |-> [k \in 1..(sz * cnt + sz) |-> 0],
      written |-> {}, calls |-> 0, log |-> <<>>, ret |-> 0] :
        sz \in 0..MaxSize, cnt \in 0..MaxCount, src \in Sources}

\* One invocation of the read callback by the native library.
ReadCall ==
    /\ rd.phase = "call"
    /\ LET out == read([src |-> rd.src, buf |-> rd.buf,
                        written |-> rd.written, calls |-> rd.calls,
                        log |-> rd.log],
                       rd.size, rd.nmemb)
       IN rd' = [rd EXCEPT !.phase = "done", !.src = out.s.src,
                           !.buf = out.s.buf, !.written = out.s.written,
                           !.calls = out.s.calls, !.log = out.s.log,
                           !.ret = out.ret]
    /\ UNCHANGED <<vf, nat, ret, hist>>

\* ------------------------------------------------------------ bounds of the lifecycle
MaxAddr     == 2   \* storage addresses 1..MaxAddr the VorbisFile can occupy
MaxLinks    == 2   \* logical sub-streams 0..MaxLinks-1 of the stream
MaxChannels == 2   \* channel counts 1..MaxChannels of a sub-stream
SmallBlock  == 2   \* a block shorter than max_samples
MaxComments == 2   \* entries in a native comment structure

\* let max_samples = 4096;
max_samples == 4096

\* Offset of field src in struct VorbisFile (fields are laid out in declaration
\* order by the compilers that accept this source): &mut vf.src is vf's address.
SrcOffset == 0

Addrs == 1..MaxAddr
NULL == 0

\* ------------------------------------------------------------ the native library
\* ov_open_callbacks: the statuses it may return.  It reads the headers through
\* the read callback; when the first read stops the open cannot succeed.
ov_open_callbacks(firstRead) ==
    IF firstRead = "stop" THEN NativeCodes ELSE {0} \cup NativeCodes

\* ov_read_float on native state n: the sample count or status it returns, the
\* link it reports with that link's channel count, and the state it leaves.
\* At most `samples` are produced; after the end of the stream was reported it
\* is reported again.
ov_read_float(n, samples) ==
    IF n.eof
    THEN {[x |-> 0, link |-> n.link, chans |-> n.chans, n |-> n]}
    ELSE {[x |-> 0, link |-> n.link, chans |-> n.chans,
           n |-> [n EXCEPT !.eof = TRUE]]}
         \cup {[x |-> c, link |-> n.link, chans |-> n.chans, n |-> n] :
                 c \in NativeCodes}
         \cup {[x |-> k, link |-> n.link, chans |-> n.chans, n |-> n] :
                 k \in {1, SmallBlock, samples}}
         \cup {[x |-> k, link |-> n.link + 1, chans |-> c,
                n |-> [n EXCEPT !.link = n.link + 1, !.chans = c]] :
                 k \in {m \in {1, SmallBlock, samples} : n.link + 1 < MaxLinks},
                 c \in 1..MaxChannels}

\* Bytes: NUL, '=', 'A', a two-byte sequence (0xC3 0xA9) and 0xFF.
NUL == 0
EntryPool ==
    {[data |-> <<65, 61, 66>>, len |-> 3],       \* A=B
     [data |-> <<65, 61, 66>>, len |-> 2],       \* A=  (buffer longer than len)
     [data |-> <<65, NUL, 66>>, len |-> 3],      \* no '=', a NUL inside
     [data |-> <<195, 169, NUL>>, len |-> 2],    \* two-byte character
     [data |-> <<195, 169, NUL>>, len |-> 1],    \* cut inside the character
     [data |-> <<255, NUL>>, len |-> 1]}         \* never valid

VendorPool == {<<88, NUL, 89>>, <<NUL>>, <<255, 88, NUL>>}

\* ov_comment: null, or a vorbis_comment structure.
NoComment == [null |-> TRUE]
VorbisComments(entries, vendors, max) ==
    {[null |-> FALSE,
      user_comments   |-> [i \in 1..Len(es) |-> es[i].data],
      comment_lengths |-> [i \in 1..Len(es) |-> es[i].len],
      comments        |-> Len(es),
      vendor          |-> v] :
        es \in SeqsUpTo(entries, max), v \in vendors}

ov_comment == {NoComment} \cup VorbisComments(EntryPool, VendorPool, MaxComments)

\* The comment structures of a plainly tagged stream: at most one entry.
ov_comment_plain ==
    {NoComment}
    \cup VorbisComments({[data |-> <<65, 61, 66>>, len |-> 3],
                         [data |-> <<255, NUL>>, len |-> 1]},
                        {<<88, NUL>>}, 1)

\* ------------------------------------------------------------ text
IsCont(b) == b \in 128..191

\* str::from_utf8(..).is_ok()
RECURSIVE Utf8Ok(_)
Utf8Ok(b) ==
    IF b = <<>> THEN TRUE
    ELSE LET c == b[1]
             n == Len(b)
         IN IF c < 128 THEN Utf8Ok(Tail(b))
            ELSE IF c \in 194..223
            THEN n >= 2 /\ IsCont(b[2]) /\ Utf8Ok(SubSeq(b, 3, n))
            ELSE IF c \in 224..239
            THEN /\ n >= 3
                 /\ b[2] \in (IF c = 224 THEN 160..191
                              ELSE IF c = 237 THEN 128..159 ELSE 128..191)
                 /\ IsCont(b[3])
                 /\ Utf8Ok(SubSeq(b, 4, n))
            ELSE IF c \in 240..244
            THEN /\ n >= 4
                 /\ b[2] \in (IF c = 240 THEN 144..191
                              ELSE IF c = 244 THEN 128..143 ELSE 128..191)
                 /\ IsCont(b[3]) /\ IsCont(b[4])
                 /\ Utf8Ok(SubSeq(b, 5, n))
            ELSE FALSE

\* CStr::from_ptr(p).to_bytes(): the bytes before the first NUL.
RECURSIVE CStrBytes(_)
CStrBytes(buf) ==
    IF buf = <<>> \/ Head(buf) = NUL THEN <<>>
    ELSE <<Head(buf)>> \o CStrBytes(Tail(buf))

\* "<INVALID UTF-8>"
InvalidVendor == <<60, 73, 78, 86, 65, 76, 73, 68, 32, 85, 84, 70, 45, 56, 62>>

NoStr == [some |-> FALSE, str |-> <<>>]

make_str_cstr(data, len) ==
    LET bytes == CStrBytes(data)
    IN IF Utf8Ok(bytes) THEN [some |-> TRUE, str |-> bytes] ELSE NoStr

\* make_str(data, len): the len bytes at data as text, if they are text.
make_str(data, len) ==
    LET bytes == SubSeq(data, 1, len)
    IN IF Utf8Ok(bytes) THEN [some |-> TRUE, str |-> bytes] ELSE NoStr

\* The loop of comment() over the entries i..comments-1 (i is 0-based).
RECURSIVE CollectComments(_, _, _)
CollectComments(cm, i, v) ==
    IF i >= cm.comments THEN v
    ELSE LET s == make_str(cm.user_comments[i + 1], cm.comment_lengths[i + 1])
         IN CollectComments(cm, i + 1, IF s.some THEN Append(v, s.str) ELSE v)

\* The value comment() builds from what ov_comment returned.
comment(cm) ==
    IF cm.null THEN [val |-> "None", body |-> <<>>]
    ELSE [val  |-> "Some",
          body |-> [vendor   |-> IF Utf8Ok(CStrBytes(cm.vendor))
                                 THEN CStrBytes(cm.vendor) ELSE InvalidVendor,
                    comments |-> CollectComments(cm, 0, <<>>)]]

\* ------------------------------------------------------------ lifecycle
\* callback_setup: self.decoder.datasource = self as *mut c_void
callback_setup(v) == [v EXCEPT !.datasource = v.addr]

\* A native entry point invoked on v: the context pointer the native-state
\* block holds at that moment, the address of the VorbisFile at that moment,
\* and what the call returned.
NativeCall(fn, v, out) ==
    [fn |-> fn, ctx |-> v.datasource, obj |-> v.addr, out |-> out]

\* History after the native calls cs of one operation.
Calls(h, cs) ==
    [h EXCEPT !.calls = cs,
              !.afterClear = @ \/ (cs # <<>> /\ h.clears > 0)]

forget_runs_drop(h) == [h EXCEPT !.clears = @ + 1]

\* mem::forget(vf): the value is discarded and Drop::drop does not run.
forget(h) == h

\* VorbisFile::new
New ==
    /\ vf.state = "Unopened"
    /\ \E a0 \in Addrs, a1 \in Addrs, first \in {"data", "stop"} :
       \E status \in ov_open_callbacks(first) :
          LET ctx  == a0 + SrcOffset
              \* the native block, written by ov_open_callbacks
              v0   == [vf EXCEPT !.addr = a0, !.datasource = ctx]
              call == NativeCall("ov_open_callbacks", v0, status)
          IN IF status = 0
             THEN /\ vf' = [v0 EXCEPT !.state = "Open", !.addr = a1]
                  /\ ret' = [op |-> "new", val |-> "Ok", body |-> <<>>]
                  /\ hist' = [Calls(hist, <<call>>) EXCEPT !.opened = TRUE]
             ELSE /\ vf' = [vf EXCEPT !.state = "Closed"]
                  /\ ret' = [op |-> "new", val |-> from_native(status),
                             body |-> <<>>]
                  /\ hist' = forget(Calls(hist, <<call>>))
    /\ UNCHANGED <<rd, nat>>

\* The host relocates the VorbisFile (a move of the value).
Move ==
    /\ vf.state = "Open" /\ ~vf.unwinding
    /\ \E a \in Addrs \ {vf.addr} : vf' = [vf EXCEPT !.addr = a]
    /\ UNCHANGED <<rd, nat, ret, hist>>

decode_outcome_nonpositive_ends(x) ==
    IF x <= 0 THEN "EndOfStream" ELSE "Ok"

\* The match on ov_read_float's result in decode().
decode_outcome(x) ==
    IF x = 0 THEN "EndOfStream"
    ELSE IF x < 0 THEN from_native(x)
    ELSE "Ok"

\* for i in 0..n_channels { self.channels.push(..) }
RECURSIVE PushChannels(_, _, _, _)
PushChannels(ch, i, n_channels, n_samples) ==
    IF i >= n_channels THEN ch
    ELSE PushChannels(Append(ch, [data |-> i, len |-> n_samples]),
                      i + 1, n_channels, n_samples)

rebuild_channels_keeps_old(old, n_channels, n_samples) ==
    PushChannels(old, 0, n_channels, n_samples)

\* self.channels.truncate(0), then the pushes.
rebuild_channels(old, n_channels, n_samples) ==
    PushChannels(SubSeq(old, 1, 0), 0, n_channels, n_samples)

\* VorbisFile::decode
Decode ==
    /\ vf.state = "Open" /\ ~vf.unwinding
    /\ \E r \in ov_read_float(nat, max_samples) :
          LET v1   == callback_setup(vf)
              rf   == NativeCall("ov_read_float", v1,
                                 [x |-> r.x, link |-> r.link])
              info == NativeCall("ov_info", v1,
                                 [link |-> r.link, channels |-> r.chans])
              res  == decode_outcome(r.x)
          IN /\ nat' = r.n
             /\ IF res = "Ok"
                THEN /\ vf' = [v1 EXCEPT !.channels =
                                  rebuild_channels(@, r.chans, r.x)]
                     /\ ret' = [op |-> "decode", val |-> "Ok",
                                body |-> vf'.channels]
                     /\ hist' = [Calls(hist, <<rf, info>>) EXCEPT
                                    !.prevN = Len(vf.channels)]
                ELSE /\ vf' = [v1 EXCEPT !.unwinding = (res = PANIC)]
                     /\ ret' = [op |-> "decode", val |-> res, body |-> <<>>]
                     /\ hist' = [Calls(hist, <<rf>>) EXCEPT
                                    !.eosSeen = IF res # "EndOfStream" THEN @
                                                ELSE IF @ = "no" THEN "once"
                                                ELSE "repeated"]
    /\ UNCHANGED rd

\* VorbisFile::comment, the native library answering from `answers` (which
\* structure it returns for the link asked for is the library's choice).
CommentOn(answers) ==
    /\ vf.state = "Open" /\ ~vf.unwinding
    /\ \E cm \in answers :
          LET call == NativeCall("ov_comment", vf, cm)
              res  == comment(cm)
          IN /\ ret' = [op |-> "comment", val |-> res.val, body |-> res.body]
             /\ hist' = Calls(hist, <<call>>)
    /\ UNCHANGED <<rd, vf, nat>>

Comment == CommentOn(ov_comment_plain)

CommentAny == CommentOn(ov_comment)

\* The value is gone once Drop::drop returns.
dropped(v) == [v EXCEPT !.state = "Closed", !.unwinding = FALSE]

\* Drop for VorbisFile: scoped release, or the unwinding of a panic.
Drop ==
    /\ vf.state = "Open"
    /\ LET v1   == callback_setup(vf)
           call == NativeCall("ov_clear", v1, 0)
       IN /\ vf' = dropped(v1)
          /\ hist' = [Calls(hist, <<call>>) EXCEPT !.clears = @ + 1]
    /\ ret' = [op |-> "drop", val |-> "()", body |-> <<>>]
    /\ UNCHANGED <<rd, nat>>

LifeInit ==
    /\ vf = [state |-> "Unopened", addr |-> NULL, datasource |-> NULL,
             channels |-> <<>>, unwinding |-> FALSE]
    /\ nat \in {[eof |-> FALSE, link |-> 0, chans |-> c] : c \in 1..MaxChannels}
    /\ ret = [op |-> "none", val |-> "", body |-> <<>>]
    /\ hist = [calls |-> <<>>, clears |-> 0, opened |-> FALSE,
               afterClear |-> FALSE, eosSeen |-> "no", prevN |-> 0]

Init == rd = RdIdle /\ LifeInit
Next == New \/ Move \/ Decode \/ Comment \/ Drop
Spec == Init /\ [][Next]_vars

\* comment() on every comment structure of the pools, called on a decoder that
\* new() has just returned.
InitComment ==
    /\ rd = RdIdle
    /\ vf = [state |-> "Open", addr |-> 1, datasource |-> 1 + SrcOffset,
             channels |-> <<>>, unwinding |-> FALSE]
    /\ nat = [eof |-> FALSE, link |-> 0, chans |-> 1]
    /\ ret = [op |-> "new", val |-> "Ok", body |-> <<>>]
    /\ hist = [calls |-> <<NativeCall("ov_open_callbacks", vf, 0)>>,
               clears |-> 0, opened |-> TRUE, afterClear |-> FALSE,
               eosSeen |-> "no", prevN |-> 0]
NextComment == CommentAny
SpecComment == InitComment /\ [][NextComment]_vars

InitRead == rd \in RdInputs /\ LifeInit
NextRead == ReadCall
SpecRead == InitRead /\ [][NextRead]_vars

\* ------------------------------------------------------------ claims: read
\* Bytes the invocation took from the source, in source order.
RdConsumed ==
    SubSeq(rd.src0.data, 1, Len(rd.src0.data) - Len(rd.src.data))

\* The source never reported failure or zero bytes during the invocation:
\* every scripted read asked for at least one byte and the data did not run out.
RdSourceAlwaysGave ==
    /\ \A k \in 1..Len(rd.src0.frags) : rd.src0.frags[k] >= 1
    /\ Len(rd.src0.data) >= rd.size * rd.nmemb

\* C1: with a source that returns between 1 and the requested number of bytes
\* on every call, an invocation returning k leaves buffer[0 .. k*size) equal to
\* the next k*size bytes of the source in source order.
C1_FragmentsAssembled ==
    (rd.phase = "done" /\ RdSourceAlwaysGave) =>
        /\ Len(RdConsumed) = rd.ret * rd.size
        /\ SubSeq(rd.buf, 1, rd.ret * rd.size) = RdConsumed

\* Elements (0-based) all of whose size bytes were written.
RdFilled ==
    {e \in 0..(rd.nmemb - 1) :
        (e * rd.size)..((e + 1) * rd.size - 1) \subseteq rd.written}

\* C2: the value returned equals the number of elements whose size bytes were
\* all filled; an element left unfinished when the source stops is not counted.
C2_ReturnsCompletedElements ==
    rd.phase = "done" =>
        rd.ret = Cardinality(RdFilled)

\* ------------------------------------------------------------ claims: lifecycle
\* The error kinds of the taxonomy: the enum and the kind for unknown codes.
ErrorKinds == OVError \cup {"UnknownNativeStatus"}

\* The native calls of the last operation to entry point fn.
CallsTo(fn) == {hist.calls[i] : i \in {j \in DOMAIN hist.calls : hist.calls[j].fn = fn}}

\* The codes the last operation handed to the status mapper.
LastMapped ==
    IF ret.op = "new"
    THEN {c.out : c \in {d \in CallsTo("ov_open_callbacks") : d.out # 0}}
    ELSE IF ret.op = "decode"
    THEN {c.out.x : c \in {d \in CallsTo("ov_read_float") : d.out.x < 0}}
    ELSE {}

\* C3: the status mapper is total and never aborts: every declared code maps
\* to an error kind, any other code to UnknownNativeStatus, as a value.
C3_MapperTotal ==
    \A code \in LastMapped :
        /\ ret.val \in ErrorKinds
        /\ code \notin DeclaredCodes => ret.val = "UnknownNativeStatus"

\* C4: when the native open returns a non-zero status, new() returns the mapped
\* error, no decoder exists, and ov_clear is never invoked on the block.
C4_FailedOpen ==
    \A c \in CallsTo("ov_open_callbacks") :
        (ret.op = "new" /\ c.out # 0) =>
            /\ ret.val \in ErrorKinds
            /\ vf.state # "Open"
            /\ ~hist.opened
            /\ hist.clears = 0

\* C5: ov_clear is invoked exactly once for a decoder whose open succeeded, at
\* its release and after a context-pointer refresh, never for one whose open
\* failed, and no native call follows the cleanup.
C5_TeardownOnce ==
    /\ hist.clears = (IF hist.opened /\ vf.state = "Closed" THEN 1 ELSE 0)
    /\ ~hist.afterClear
    /\ \A c \in CallsTo("ov_clear") : c.ctx = c.obj /\ ret.op = "drop"

C5_Released ==
    /\ vf.state = "Closed" /\ hist.opened /\ ret.op = "drop"
    /\ hist.clears = 1
    /\ hist.eosSeen = "once"

\* C6: at the moment any native entry point is invoked (open, read-samples,
\* info, comments, close) the context pointer stored in the native-state block
\* is the current address of the VorbisFile.
C6_ContextIsSelf ==
    \A i \in DOMAIN hist.calls : hist.calls[i].ctx = hist.calls[i].obj

\* C7: decode() returns EndOfStream for a count of 0, the mapped error value
\* for a negative count, a set of channel buffers for a positive count, and
\* always one of the three as a value.
C7_DecodeOutcome ==
    ret.op = "decode" =>
        \A c \in CallsTo("ov_read_float") :
            /\ c.out.x = 0 => ret.val = "EndOfStream"
            /\ c.out.x < 0 => ret.val \in ErrorKinds \ {"EndOfStream"}
            /\ c.out.x > 0 => ret.val = "Ok"

\* C8: once decode() has returned EndOfStream, every later decode() returns
\* EndOfStream.
C8_EndOfStreamRepeats ==
    (hist.eosSeen # "no" /\ ret.op = "decode") => ret.val = "EndOfStream"

C8_SecondEndOfStream ==
    /\ hist.eosSeen = "repeated"
    /\ ret.op = "decode" /\ ret.val = "EndOfStream"
    /\ vf.channels # <<>>

\* C9: a successful decode() returns exactly N channel buffers, N the channel
\* count of the link the call reported, all of the length n the native call
\* returned, 0 < n <= max_samples, and no descriptor of an earlier call.
C9_DecodeShape ==
    (ret.op = "decode" /\ ret.val = "Ok") =>
        \A rf \in CallsTo("ov_read_float") : \A info \in CallsTo("ov_info") :
            /\ info.out.link = rf.out.link
            /\ Len(vf.channels) = info.out.channels
            /\ \A k \in DOMAIN vf.channels :
                  /\ vf.channels[k].len = rf.out.x
                  /\ vf.channels[k].data = k - 1
            /\ 0 < rf.out.x /\ rf.out.x <= max_samples
            /\ ret.body = vf.channels

C9_FewerChannelsThanBefore ==
    /\ ret.op = "decode" /\ ret.val = "Ok"
    /\ CallsTo("ov_info") # {}
    /\ hist.prevN > Len(vf.channels)
    /\ \E k \in DOMAIN vf.channels : vf.channels[k].len = max_samples

\* ------------------------------------------------------------ claims: comment
\* Entry i (1-based) of comment structure cm, cut to its length prefix.
Entry(cm, i) == SubSeq(cm.user_comments[i], 1, cm.comment_lengths[i])

\* The entries of cm that are text.
TextEntries(cm) == {i \in 1..cm.comments : Utf8Ok(Entry(cm, i))}

\* C10: comment() is absent exactly when ov_comment returned null; otherwise it
\* holds a vendor string and exactly the entries that are text, each cut to its
\* length prefix, unchanged and in native order; the others are skipped.
C10_CommentExtraction ==
    ret.op = "comment" =>
        \A c \in CallsTo("ov_comment") :
            /\ ret.val \in {"None", "Some"}
            /\ ret.val = "None" <=> c.out.null
            /\ ~c.out.null =>
                  /\ Utf8Ok(ret.body.vendor)
                  /\ Len(ret.body.comments) = Cardinality(TextEntries(c.out))
                  /\ \A i \in TextEntries(c.out) :
                        ret.body.comments[
                            Cardinality({j \in TextEntries(c.out) : j <= i})]
                        = Entry(c.out, i)

\* An entry that is no text was skipped and the one after it, which holds no
\* '=' but a NUL, was kept whole.
C10_SkippedThenKept ==
    /\ ret.op = "comment" /\ ret.val = "Some"
    /\ \E c \in CallsTo("ov_comment") :
          /\ c.out.comments = 2
          /\ 1 \notin TextEntries(c.out)
          /\ ret.body.comments = <<Entry(c.out, 2)>>
          /\ \E k \in DOMAIN Entry(c.out, 2) : Entry(c.out, 2)[k] = NUL
          /\ \A k \in DOMAIN Entry(c.out, 2) : Entry(c.out, 2)[k] # 61

\* C11: one invocation writes only inside buffer[0 .. size*nmemb), takes at
\* most size*nmemb bytes from the source, and returns after finitely many
\* source reads: at most size*nmemb of them, each retry of a partly read
\* element asking, at the same place, for fewer bytes than the read before it.
\* Every slice of one byte or more handed to the source lies inside the buffer
\* (for size 0 the slices are empty and nothing can be written through them).
C11_InBoundsAndTerminates ==
    rd.phase = "done" =>
        /\ rd.written \subseteq 0..(rd.size * rd.nmemb - 1)
        /\ \A k \in DOMAIN rd.buf : k > rd.size * rd.nmemb => rd.buf[k] = 0
        /\ \A k \in DOMAIN rd.log :
              rd.log[k].req > 0 =>
                  rd.log[k].at + rd.log[k].req <= rd.size * rd.nmemb
        /\ Len(RdConsumed) <= rd.size * rd.nmemb
        /\ rd.calls <= rd.size * rd.nmemb
        /\ \A k \in DOMAIN rd.log :
              (0 < rd.log[k].n /\ rd.log[k].n < rd.log[k].req) =>
                  /\ k + 1 \in DOMAIN rd.log
                  /\ rd.log[k + 1].at = rd.log[k].at
                  /\ rd.log[k + 1].req < rd.log[k].req
                  /\ rd.log[k + 1].req > 0

\* An element was read in three parts, and the read for the last element of
\* the buffer found the source at its end.
C11_RetriedTwice ==
    /\ rd.phase = "done" /\ rd.nmemb >= 2
    /\ \E k \in DOMAIN rd.log :
          /\ k + 2 \in DOMAIN rd.log
          /\ 0 < rd.log[k].n /\ rd.log[k].n < rd.log[k].req
          /\ 0 < rd.log[k + 1].n /\ rd.log[k + 1].n < rd.log[k + 1].req
          /\ rd.log[k + 2].n = rd.log[k + 2].req
    /\ \E k \in DOMAIN rd.log :
          rd.log[k].at = rd.nmemb - 1 /\ rd.log[k].n = 0
    /\ rd.ret = rd.nmemb - 1
====
